---- MODULE Spec2Model ----
(***************************************************************************)
(* Hawala dashboard: the dashboard script (app.py) and the silent backend  *)
(* function (multihop_backend.py) as one-shot batch pipelines over a       *)
(* cleaned transaction list.  One run executes one of the two programs on  *)
(* one dataset; every section of the script is one action.                 *)
(*                                                                         *)
(* A rate is kept exact, as the pair <<numerator, denominator>> of the     *)
(* Python division that produces it.  A timestamp is an integer count of   *)
(* half days, so that a span has a time-of-day part.                       *)
(***************************************************************************)
EXTENDS Integers, Sequences, FiniteSets, TLC

VARIABLES df, program, pc, G, total_edges,
          multi_hop_pairs, multi_hop_rate,
          cycles, cycle_edges, circular_rate,
          mirrored_rate, corridor_counts, corridor_rate, hawala_rate,
          suspicious_paths, unique_suspicious_pairs, total_transactions,
          suspicious_rate

vars == <<df, program, pc, G, total_edges, multi_hop_pairs, multi_hop_rate,
          cycles, cycle_edges, circular_rate, mirrored_rate, corridor_counts,
          corridor_rate, hawala_rate, suspicious_paths,
          unique_suspicious_pairs, total_transactions, suspicious_rate>>

dashboardVars == <<total_edges, multi_hop_pairs, multi_hop_rate, cycles,
                   cycle_edges, circular_rate, mirrored_rate, corridor_counts,
                   corridor_rate, hawala_rate>>

backendVars == <<suspicious_paths, unique_suspicious_pairs,
                 total_transactions, suspicious_rate>>

(***************************************************************************)
(* Bounds of the model and constants of the programs.                      *)
(***************************************************************************)
MaxRecords == 5          \* longest ledger of the structural family
MaxDated == 3            \* longest ledger of the dated family
MaxAmounts == 5          \* longest ledger of the amount family
MaxCorridors == 31       \* most distinct corridors of the corridor family
MaxRepeat == 2           \* most repeats of one corridor in that family
cycleEnumerationBudget == 2   \* a count budget for the cycle enumeration

UnitsPerDay == 2         \* timestamp units (half days) in one day
MIN_HOP_LENGTH == 3
TIME_WINDOW_DAYS == 7
DashboardHopThreshold == 3
MirrorGroupThreshold == 3
TopCorridorCount == 15
RoundBase == 100
WeightMultiHop == 35
WeightCircular == 30
WeightMirrored == 20
WeightCorridor == 15
WeightScale == 100

(***************************************************************************)
(* Exact rationals for the rates.                                          *)
(***************************************************************************)
Rate(n, d) == <<n, d>>
ZeroRate == <<0, 1>>
RateEq(a, b) == a[1] * b[2] = b[1] * a[2]
RateLe(a, b) == a[1] * b[2] <= b[1] * a[2]
OneRate == <<1, 1>>

Range(s) == {s[i] : i \in DOMAIN s}

(***************************************************************************)
(* The graph: networkx DiGraph.  nodes keeps insertion order; edges maps   *)
(* each ordered pair to the one attribute dictionary the pair owns.        *)
(***************************************************************************)
EmptyGraph == [nodes |-> <<>>, edges |-> <<>>]

Max(S) == CHOOSE x \in S : \A y \in S : y <= x
Min(S) == CHOOSE x \in S : \A y \in S : x <= y

\* the codes in the order add_edge meets them: source, destination, row by row
Endpoints(d) ==
    [k \in 1..(2 * Len(d)) |->
        IF k % 2 = 1 THEN d[(k + 1) \div 2].source_code
        ELSE d[k \div 2].destination_code]

\* add_edge adds a node the first time it meets it: G.nodes() is in that order
InsertionOrder(s) ==
    LET firsts == {Min({k \in DOMAIN s : s[k] = x}) : x \in Range(s)}
    IN  [r \in 1..Cardinality(firsts) |->
            s[CHOOSE k \in firsts : Cardinality({j \in firsts : j <= k}) = r]]

EdgeOf(row) == <<row.source_code, row.destination_code>>

\* the row whose add_edge wrote the pair's attribute dictionary last
LastRowOf(d, e) == Max({i \in DOMAIN d : EdgeOf(d[i]) = e})

\* app.py: for _, row in df.iterrows(): G.add_edge(source, destination, amount=...)
\* A DiGraph holds one attribute dictionary per ordered pair, and add_edge on a
\* pair it already holds overwrites the attributes it names.
DashboardGraph(d) ==
    [nodes |-> InsertionOrder(Endpoints(d)),
     edges |-> [e \in {EdgeOf(d[i]) : i \in DOMAIN d} |->
                   [amount |-> d[LastRowOf(d, e)].amount]]]

\* multihop_backend.py: G.add_edge(source, destination, amount=..., date=...)
BackendGraph(d) ==
    [nodes |-> InsertionOrder(Endpoints(d)),
     edges |-> [e \in {EdgeOf(d[i]) : i \in DOMAIN d} |->
                   [amount |-> d[LastRowOf(d, e)].amount,
                    date |-> d[LastRowOf(d, e)].date]]]

number_of_edges(Gr) == Cardinality(DOMAIN Gr.edges)

get_edge_data(Gr, u, v) == Gr.edges[<<u, v>>]

(***************************************************************************)
(* Shortest paths (breadth-first search).                                  *)
(***************************************************************************)
Successors(Gr, S) == {e[2] : e \in {x \in DOMAIN Gr.edges : x[1] \in S}}

RECURSIVE BfsLevel(_, _, _, _, _)
\* the number of edges on a shortest path to t, t being reachable
BfsLevel(Gr, frontier, seen, t, d) ==
    IF t \in frontier THEN d
    ELSE BfsLevel(Gr, Successors(Gr, frontier) \ seen,
                  seen \cup Successors(Gr, frontier), t, d + 1)

RECURSIVE Reachable(_, _)
Reachable(Gr, seen) ==
    IF Successors(Gr, seen) \subseteq seen THEN seen
    ELSE Reachable(Gr, seen \cup Successors(Gr, seen))

\* the negation of NetworkXNoPath
has_path(Gr, s, t) == t \in Reachable(Gr, {s})

\* nx.shortest_path_length: the number of EDGES of a shortest path
shortest_path_length(Gr, s, t) == BfsLevel(Gr, {s}, {s}, t, 0)

RECURSIVE shortest_path(_, _, _)
\* nx.shortest_path: one shortest path as its list of nodes; among several
\* shortest paths the library's traversal order picks one.
shortest_path(Gr, s, t) ==
    IF s = t THEN <<s>>
    ELSE LET d == shortest_path_length(Gr, s, t)
             u == CHOOSE u \in Range(Gr.nodes) :
                     /\ <<u, t>> \in DOMAIN Gr.edges
                     /\ has_path(Gr, s, u)
                     /\ shortest_path_length(Gr, s, u) = d - 1
         IN  Append(shortest_path(Gr, s, u), t)

(***************************************************************************)
(* Dashboard: multi-hop detection.                                         *)
(***************************************************************************)
MultiHopPairs(Gr) ==
    {p \in Range(Gr.nodes) \X Range(Gr.nodes) :
        /\ p[1] # p[2]
        /\ has_path(Gr, p[1], p[2])
        /\ shortest_path_length(Gr, p[1], p[2]) >= DashboardHopThreshold}

(***************************************************************************)
(* Dashboard: circular routing detection.                                  *)
(***************************************************************************)
RECURSIVE CyclesThrough(_, _, _)
\* the simple cycles that start at path[1], continue path and stay in allowed
CyclesThrough(Gr, allowed, path) ==
    LET last == path[Len(path)]
        next == {w \in allowed : /\ <<last, w>> \in DOMAIN Gr.edges
                                 /\ w \notin Range(path)}
    IN  (IF <<last, path[1]>> \in DOMAIN Gr.edges THEN {path} ELSE {})
        \cup UNION {CyclesThrough(Gr, allowed, Append(path, w)) : w \in next}

\* nx.simple_cycles: every simple cycle once, as a list of its nodes (a self
\* loop is the cycle [v]); each cycle is rooted at its first-inserted node.
simple_cycles(Gr) ==
    UNION {CyclesThrough(Gr, {Gr.nodes[j] : j \in i..Len(Gr.nodes)},
                         <<Gr.nodes[i]>>) : i \in 1..Len(Gr.nodes)}

\* the same loop without the modulo: the closing edge is left out
WrapAroundEdgesOpen(c) == {<<c[i], c[i + 1]>> : i \in 1..(Len(c) - 1)}

\* for i in range(len(c)): (c[i], c[(i + 1) % len(c)])
WrapAroundEdges(c) == {<<c[i], c[(i % Len(c)) + 1]>> : i \in 1..Len(c)}

CycleEdges(cs) == UNION {WrapAroundEdges(c) : c \in cs}

(***************************************************************************)
(* Dashboard: mirrored flow detection.                                     *)
(***************************************************************************)
\* rounding with ties going up
round_half_up(a) ==
    LET q == a \div RoundBase
        r == a % RoundBase
    IN  IF 2 * r < RoundBase THEN q * RoundBase ELSE (q + 1) * RoundBase

\* Series.round(-2): rint(x / 100) * 100, ties to the even multiple
round_hundred(a) ==
    LET q == a \div RoundBase
        r == a % RoundBase
    IN  IF 2 * r < RoundBase THEN q * RoundBase
        ELSE IF 2 * r > RoundBase THEN (q + 1) * RoundBase
        ELSE IF q % 2 = 0 THEN q * RoundBase
        ELSE (q + 1) * RoundBase

rounded_amount(d) == [i \in 1..Len(d) |-> round_hundred(d[i].amount)]

GroupSize(col, i) == Cardinality({j \in DOMAIN col : col[j] = col[i]})

\* df.groupby("rounded_amount").filter(lambda x: len(x) > 3): the row indices kept
mirrored_df(d) ==
    {i \in 1..Len(d) : GroupSize(rounded_amount(d), i) > MirrorGroupThreshold}

(***************************************************************************)
(* Dashboard: corridor analysis.                                           *)
(***************************************************************************)
corridor(row) == row.source_code \o " → " \o row.destination_code

CorridorColumn(d) == [i \in 1..Len(d) |-> corridor(d[i])]

nunique(col) == Cardinality(Range(col))

\* df.groupby("corridor").size()
GroupBySize(col) ==
    [k \in Range(col) |-> Cardinality({i \in DOMAIN col : col[i] = k})]

RECURSIVE sort_values_ascending(_, _)
\* .sort_values() with the default ascending=True
sort_values_ascending(sizes, keys) ==
    IF keys = {} THEN <<>>
    ELSE LET k == CHOOSE k \in keys : \A j \in keys : sizes[k] <= sizes[j]
         IN  <<[corridor |-> k, size |-> sizes[k]]>>
             \o sort_values_ascending(sizes, keys \ {k})

RECURSIVE sort_values(_, _)
\* .sort_values(ascending=False): the order among equal counts is the sort's
sort_values(sizes, keys) ==
    IF keys = {} THEN <<>>
    ELSE LET k == CHOOSE k \in keys : \A j \in keys : sizes[k] >= sizes[j]
         IN  <<[corridor |-> k, size |-> sizes[k]]>>
             \o sort_values(sizes, keys \ {k})

head(s, n) == SubSeq(s, 1, IF Len(s) < n THEN Len(s) ELSE n)

CorridorCounts(d) ==
    LET sizes == GroupBySize(CorridorColumn(d))
    IN  head(sort_values(sizes, DOMAIN sizes), TopCorridorCount)

(***************************************************************************)
(* Dashboard: final hawala rate, 0.35 m + 0.30 c + 0.20 r + 0.15 k.        *)
(***************************************************************************)
\* the weights with two digits swapped: 0.53 for 0.35
HawalaRateSwapped(m, c, r, k) ==
    Rate(  53 * m[1] * c[2] * r[2] * k[2]
         + WeightCircular * c[1] * m[2] * r[2] * k[2]
         + WeightMirrored * r[1] * m[2] * c[2] * k[2]
         + WeightCorridor * k[1] * m[2] * c[2] * r[2],
         WeightScale * m[2] * c[2] * r[2] * k[2])

HawalaRate(m, c, r, k) ==
    Rate(  WeightMultiHop * m[1] * c[2] * r[2] * k[2]
         + WeightCircular * c[1] * m[2] * r[2] * k[2]
         + WeightMirrored * r[1] * m[2] * c[2] * k[2]
         + WeightCorridor * k[1] * m[2] * c[2] * r[2],
         WeightScale * m[2] * c[2] * r[2] * k[2])

(***************************************************************************)
(* Backend: windowed multi-hop detection.                                  *)
(***************************************************************************)
\* for src in nodes: for dst in nodes: the pairs in loop order
NodePairs(nodes) ==
    [k \in 1..(Len(nodes) * Len(nodes)) |->
        <<nodes[((k - 1) \div Len(nodes)) + 1],
          nodes[((k - 1) % Len(nodes)) + 1]>>]

\* the pairs that survive src == dst, NetworkXNoPath and the hop length check
HopCandidates(Gr) ==
    SelectSeq(NodePairs(Gr.nodes),
              LAMBDA p : /\ p[1] # p[2]
                         /\ has_path(Gr, p[1], p[2])
                         /\ Len(shortest_path(Gr, p[1], p[2])) >= MIN_HOP_LENGTH)

EdgeDates(Gr, path) ==
    [i \in 1..(Len(path) - 1) |-> get_edge_data(Gr, path[i], path[i + 1]).date]

\* Timedelta.days of a non-negative span: the whole days in it
TimedeltaDays(delta) == delta \div UnitsPerDay

WithinWindow(Gr, path) ==
    LET edge_dates == Range(EdgeDates(Gr, path))
    IN  /\ edge_dates # {}
        /\ TimedeltaDays(Max(edge_dates) - Min(edge_dates)) <= TIME_WINDOW_DAYS

SuspiciousPaths(Gr) ==
    LET cand == HopCandidates(Gr)
        paths == [i \in 1..Len(cand) |-> shortest_path(Gr, cand[i][1], cand[i][2])]
    IN  SelectSeq(paths, LAMBDA p : WithinWindow(Gr, p))

UniqueSuspiciousPairs(paths) == {<<p[1], p[Len(p)]>> : p \in Range(paths)}

(***************************************************************************)
(* The datasets of the runs: four families of cleaned ledgers.             *)
(***************************************************************************)
Row(c, a, t) ==
    [source_code |-> c[1], destination_code |-> c[2], amount |-> a, date |-> t]

\* structural family: a five-account ring with chords and a self loop,
\* the ledger sorted by corridor
GraphCorridors ==
    << <<"C", "A">>, <<"A", "B">>, <<"E", "A">>, <<"B", "C">>, <<"D", "E">>,
       <<"C", "D">>, <<"A", "A">>, <<"B", "A">>, <<"A", "C">> >>

NonDecreasing(n, K) ==
    {f \in [1..n -> 1..K] : \A i \in 1..(n - 1) : f[i] <= f[i + 1]}

StructuralLedgers ==
    UNION {{[i \in 1..n |-> Row(GraphCorridors[f[i]], 100, 0)] :
                f \in NonDecreasing(n, Len(GraphCorridors))} : n \in 0..MaxRecords}

\* dated family: a two-edge chain, timestamps 0, 7, 7.5 and 8 days, any order
DatedCorridors == {<<"A", "B">>, <<"B", "C">>}
Dates == {0, 14, 15, 16}

DatedLedgers ==
    UNION {[1..n -> {Row(c, 100, t) : c \in DatedCorridors, t \in Dates}] :
              n \in 0..MaxDated}

\* amount family: one corridor, amounts around the rounding ties, any order
Amounts == {100, 250, 300, 350}

AmountLedgers ==
    UNION {[1..n -> {Row(<<"A", "B">>, a, 0) : a \in Amounts}] : n \in 0..MaxAmounts}

\* corridor family: D distinct corridors between six senders and six
\* receivers, one of them repeated
Senders == <<"S1", "S2", "S3", "S4", "S5", "S6">>
Receivers == <<"T1", "T2", "T3", "T4", "T5", "T6">>

CorridorNo(k) ==
    <<Senders[((k - 1) \div Len(Receivers)) + 1],
      Receivers[((k - 1) % Len(Receivers)) + 1]>>

CorridorLedgers ==
    {[i \in 1..(D + c) |-> Row(CorridorNo(IF i <= D THEN i ELSE h), 100, 0)] :
        D \in 1..MaxCorridors, h \in 1..MaxCorridors, c \in 0..MaxRepeat}

Ledgers == StructuralLedgers \cup DatedLedgers \cup AmountLedgers \cup CorridorLedgers

(***************************************************************************)
(* The runs.                                                               *)
(***************************************************************************)
Init ==
    /\ df \in Ledgers
    /\ program \in {"dashboard", "backend"}
    /\ pc = "build"
    /\ G = EmptyGraph
    /\ total_edges = 0
    /\ multi_hop_pairs = {}
    /\ multi_hop_rate = ZeroRate
    /\ cycles = {}
    /\ cycle_edges = {}
    /\ circular_rate = ZeroRate
    /\ mirrored_rate = ZeroRate
    /\ corridor_counts = <<>>
    /\ corridor_rate = ZeroRate
    /\ hawala_rate = ZeroRate
    /\ suspicious_paths = <<>>
    /\ unique_suspicious_pairs = {}
    /\ total_transactions = 0
    /\ suspicious_rate = ZeroRate

\* app.py 37-46
BuildTransactionGraph ==
    /\ program = "dashboard" /\ pc = "build"
    /\ G' = DashboardGraph(df)
    /\ total_edges' = number_of_edges(G')
    /\ pc' = "multihop"
    /\ UNCHANGED <<df, program, multi_hop_pairs, multi_hop_rate, cycles,
                   cycle_edges, circular_rate, mirrored_rate, corridor_counts,
                   corridor_rate, hawala_rate, backendVars>>

\* app.py 51-62
MultiHopDetection ==
    /\ program = "dashboard" /\ pc = "multihop"
    /\ multi_hop_pairs' = MultiHopPairs(G)
    /\ multi_hop_rate' = IF total_edges # 0
                         THEN Rate(Cardinality(multi_hop_pairs'), total_edges)
                         ELSE ZeroRate
    /\ pc' = "circular"
    /\ UNCHANGED <<df, program, G, total_edges, cycles, cycle_edges,
                   circular_rate, mirrored_rate, corridor_counts,
                   corridor_rate, hawala_rate, backendVars>>

\* app.py 67-74
CircularRoutingDetection ==
    /\ program = "dashboard" /\ pc = "circular"
    /\ cycles' = simple_cycles(G)
    /\ cycle_edges' = CycleEdges(cycles')
    /\ circular_rate' = IF total_edges # 0
                        THEN Rate(Cardinality(cycle_edges'), total_edges)
                        ELSE ZeroRate
    /\ pc' = "mirrored"
    /\ UNCHANGED <<df, program, G, total_edges, multi_hop_pairs, multi_hop_rate,
                   mirrored_rate, corridor_counts, corridor_rate, hawala_rate,
                   backendVars>>

\* app.py 79-82: the division has no guard, an empty frame raises
MirroredFlowDetection ==
    /\ program = "dashboard" /\ pc = "mirrored"
    /\ IF Len(df) = 0
       THEN /\ pc' = "ZeroDivisionError"
            /\ UNCHANGED mirrored_rate
       ELSE /\ mirrored_rate' = Rate(Cardinality(mirrored_df(df)), Len(df))
            /\ pc' = "corridor"
    /\ UNCHANGED <<df, program, G, total_edges, multi_hop_pairs, multi_hop_rate,
                   cycles, cycle_edges, circular_rate, corridor_counts,
                   corridor_rate, hawala_rate, backendVars>>

\* app.py 87-96: the division has no guard either
CorridorAnalysis ==
    /\ program = "dashboard" /\ pc = "corridor"
    /\ corridor_counts' = CorridorCounts(df)
    /\ IF nunique(CorridorColumn(df)) = 0
       THEN /\ pc' = "ZeroDivisionError"
            /\ UNCHANGED corridor_rate
       ELSE /\ corridor_rate' = Rate(Len(corridor_counts'),
                                     nunique(CorridorColumn(df)))
            /\ pc' = "score"
    /\ UNCHANGED <<df, program, G, total_edges, multi_hop_pairs, multi_hop_rate,
                   cycles, cycle_edges, circular_rate, mirrored_rate,
                   hawala_rate, backendVars>>

\* app.py 109-114
FinalHawalaRate ==
    /\ program = "dashboard" /\ pc = "score"
    /\ hawala_rate' = HawalaRate(multi_hop_rate, circular_rate, mirrored_rate,
                                 corridor_rate)
    /\ pc' = "done"
    /\ UNCHANGED <<df, program, G, total_edges, multi_hop_pairs, multi_hop_rate,
                   cycles, cycle_edges, circular_rate, mirrored_rate,
                   corridor_counts, corridor_rate, backendVars>>

\* multihop_backend.py 42-50
BackendBuildGraph ==
    /\ program = "backend" /\ pc = "build"
    /\ G' = BackendGraph(df)
    /\ pc' = "detect"
    /\ UNCHANGED <<df, program, dashboardVars, backendVars>>

\* multihop_backend.py 55-82
BackendMultiHopDetection ==
    /\ program = "backend" /\ pc = "detect"
    /\ suspicious_paths' = SuspiciousPaths(G)
    /\ pc' = "aggregate"
    /\ UNCHANGED <<df, program, G, dashboardVars, unique_suspicious_pairs,
                   total_transactions, suspicious_rate>>

\* multihop_backend.py 87-106
BackendAggregation ==
    /\ program = "backend" /\ pc = "aggregate"
    /\ unique_suspicious_pairs' = UniqueSuspiciousPairs(suspicious_paths)
    /\ total_transactions' = number_of_edges(G)
    /\ suspicious_rate' = IF total_transactions' > 0
                          THEN Rate(Cardinality(unique_suspicious_pairs'),
                                    total_transactions')
                          ELSE ZeroRate
    /\ pc' = "done"
    /\ UNCHANGED <<df, program, G, dashboardVars, suspicious_paths>>

Next ==
    \/ BuildTransactionGraph
    \/ MultiHopDetection
    \/ CircularRoutingDetection
    \/ MirroredFlowDetection
    \/ CorridorAnalysis
    \/ FinalHawalaRate
    \/ BackendBuildGraph
    \/ BackendMultiHopDetection
    \/ BackendAggregation

Spec == Init /\ [][Next]_vars

(***************************************************************************)
(* Properties.                                                             *)
(***************************************************************************)
Dashboard(stages) == program = "dashboard" /\ pc \in stages
Backend(stages) == program = "backend" /\ pc \in stages

InUnitInterval(r) == RateLe(ZeroRate, r) /\ RateLe(r, OneRate)

\* the number of accounts on a shortest path from s to t
HopCount(Gr, s, t) == shortest_path_length(Gr, s, t) + 1

\* the pairs the hop rule names: reachable, at least MIN_HOP_LENGTH accounts
LongPairs(Gr) ==
    {p \in Range(Gr.nodes) \X Range(Gr.nodes) :
        /\ p[1] # p[2]
        /\ has_path(Gr, p[1], p[2])
        /\ HopCount(Gr, p[1], p[2]) >= MIN_HOP_LENGTH}

\* C1: for the empty transaction list the run completes without raising and
\* reports every rate and the composite score as 0.0.
C1_EmptyLedgerAllZero ==
    df = <<>> =>
        /\ pc # "ZeroDivisionError"
        /\ Dashboard({"done"}) =>
              /\ RateEq(multi_hop_rate, ZeroRate)
              /\ RateEq(circular_rate, ZeroRate)
              /\ RateEq(mirrored_rate, ZeroRate)
              /\ RateEq(corridor_rate, ZeroRate)
              /\ RateEq(hawala_rate, ZeroRate)
        /\ Backend({"done"}) => RateEq(suspicious_rate, ZeroRate)

\* C2: in the dashboard and in the backend alike, a pair (s, t), s # t, is a
\* multi-hop candidate exactly when t is reachable from s and the shortest path
\* has at least 3 accounts; a graph of direct edges only has multi-hop rate 0.
C2_SameHopThreshold ==
    /\ Dashboard({"circular", "mirrored", "corridor", "score", "done"}) =>
          /\ multi_hop_pairs = LongPairs(G)
          /\ LongPairs(G) = {} => RateEq(multi_hop_rate, ZeroRate)
    /\ Backend({"detect", "aggregate", "done"}) =>
          Range(HopCandidates(G)) = LongPairs(G)
    /\ Backend({"done"}) /\ LongPairs(G) = {} => RateEq(suspicious_rate, ZeroRate)

ThreeCycle == {<<"A", "B">>, <<"B", "C">>, <<"C", "A">>}

\* C3: cycle_edges is exactly the set of edges of the graph that lie on a
\* directed cycle (an edge (u, v) does when u is reachable from v), and
\* circular_rate is its size over the number of distinct edges; the graph that
\* is the 3-cycle A->B->C->A has all three edges in it and rate 1.0.
C3_CycleEdgesExact ==
    Dashboard({"mirrored", "corridor", "score", "done", "ZeroDivisionError"}) =>
        /\ cycle_edges = {e \in DOMAIN G.edges : has_path(G, e[2], e[1])}
        /\ DOMAIN G.edges # {} =>
              /\ circular_rate[2] = Cardinality(DOMAIN G.edges)
              /\ circular_rate[1] = Cardinality(cycle_edges)
        /\ DOMAIN G.edges = ThreeCycle =>
              /\ cycle_edges = ThreeCycle
              /\ RateEq(circular_rate, OneRate)

C3_Witness ==
    /\ Dashboard({"mirrored"})
    /\ \/ DOMAIN G.edges = ThreeCycle
       \/ ThreeCycle \cup {<<"C", "D">>, <<"A", "A">>} = DOMAIN G.edges

\* C4: in the backend the rate is the number of unique suspicious pairs over
\* the number of transaction records of the input.
C4_RateOverRecords ==
    Backend({"done"}) /\ Len(df) > 0 =>
        RateEq(suspicious_rate, Rate(Cardinality(unique_suspicious_pairs), Len(df)))

\* the span, in timestamp units, of the transactions read on the path's edges
Span(Gr, path) ==
    Max(Range(EdgeDates(Gr, path))) - Min(Range(EdgeDates(Gr, path)))

\* C5: a shortest path that passes the hop length check is recorded as
\* suspicious exactly when the span of the timestamps on its edges, taken at the
\* timestamps' full resolution, is at most 7 days.
C5_WindowAtFullResolution ==
    Backend({"aggregate", "done"}) =>
        \A p \in Range(HopCandidates(G)) :
            LET path == shortest_path(G, p[1], p[2])
            IN  (path \in Range(suspicious_paths))
                  <=> (Span(G, path) <= TIME_WINDOW_DAYS * UnitsPerDay)

RECURSIVE SumOver(_, _)
SumOver(f, S) ==
    IF S = {} THEN 0
    ELSE LET x == CHOOSE x \in S : TRUE IN f[x] + SumOver(f, S \ {x})

Distance(a, b) == IF a < b THEN b - a ELSE a - b

\* k is the hundred nearest to a, the even hundred when two are equally near
NearestHundred(a, k) ==
    /\ k % 100 = 0
    /\ Distance(a, k) <= 50
    /\ Distance(a, k) = 50 => (k \div 100) % 2 = 0

Bucket(k) == {i \in DOMAIN df : NearestHundred(df[i].amount, k)}

BucketKeys == {100 * q : q \in 0..((Max({df[i].amount : i \in DOMAIN df}) \div 100) + 1)}

FlaggedKeys == {k \in BucketKeys : Cardinality(Bucket(k)) > 3}

AmountsAre(s) == Len(df) = Len(s) /\ \A i \in DOMAIN s : df[i].amount = s[i]

\* C6: for a non-empty list every amount falls in the bucket of its nearest
\* hundred (ties to the even hundred), the buckets of more than 3 records are
\* the flagged ones, and mirrored_rate is the number of records in flagged
\* buckets over the number of records; [100, 100, 100, 100, 250] flags the
\* bucket 100 alone and gives 4/5.
C6_MirroredRate ==
    Dashboard({"corridor", "score", "done"}) =>
        /\ mirrored_rate[2] = Len(df)
        /\ mirrored_rate[1] =
              SumOver([k \in FlaggedKeys |-> Cardinality(Bucket(k))], FlaggedKeys)
        /\ AmountsAre(<<100, 100, 100, 100, 250>>) =>
              /\ FlaggedKeys = {100}
              /\ RateEq(mirrored_rate, Rate(4, 5))

C6_Witness ==
    /\ Dashboard({"corridor"})
    /\ AmountsAre(<<100, 100, 100, 100, 250>>)

CorridorPairs == {EdgeOf(df[i]) : i \in DOMAIN df}

RecordsOf(e) == Cardinality({i \in DOMAIN df : EdgeOf(df[i]) = e})

Ranked == {corridor_counts[i].corridor : i \in DOMAIN corridor_counts}

KeyOf(e) == e[1] \o " → " \o e[2]

Smaller(a, b) == IF a < b THEN a ELSE b

\* C7: with D >= 1 distinct (source, destination) corridors the ranking holds
\* min(15, D) corridors, each with its transaction count, none with a smaller
\* count than a corridor left out, and corridor_rate = min(15, D) / D: 1.0 for
\* D = 15 and 0.5 for D = 30.
C7_TopCorridors ==
    Dashboard({"score", "done"}) =>
        LET D == Cardinality(CorridorPairs)
        IN  /\ Len(corridor_counts) = Smaller(15, D)
            /\ Cardinality(Ranked) = Smaller(15, D)
            /\ \A i \in DOMAIN corridor_counts :
                  \E e \in CorridorPairs :
                      /\ corridor_counts[i].corridor = KeyOf(e)
                      /\ corridor_counts[i].size = RecordsOf(e)
            /\ \A e \in CorridorPairs : \A o \in CorridorPairs :
                  KeyOf(e) \in Ranked /\ KeyOf(o) \notin Ranked
                      => RecordsOf(e) >= RecordsOf(o)
            /\ RateEq(corridor_rate, Rate(Smaller(15, D), D))
            /\ D = 15 => RateEq(corridor_rate, OneRate)
            /\ D = 30 => RateEq(corridor_rate, Rate(1, 2))

C7_Witness ==
    /\ Dashboard({"score"})
    /\ Cardinality(CorridorPairs) = 30
    /\ \E e \in CorridorPairs : RecordsOf(e) > 1 /\ KeyOf(e) \in Ranked
    /\ \E o \in CorridorPairs : KeyOf(o) \notin Ranked

\* C8: the cycle enumeration runs under an enforced budget: with a count budget
\* of cycleEnumerationBudget cycles it returns at most that many, the
\* enumeration being cut off there.
C8_CycleBudgetEnforced ==
    Dashboard({"mirrored", "corridor", "score", "done", "ZeroDivisionError"}) =>
        Cardinality(cycles) <= cycleEnumerationBudget

\* the transaction instances the graph holds for a pair: a DiGraph edge owns
\* one attribute dictionary
EdgeInstances(Gr, e) == IF e \in DOMAIN Gr.edges THEN <<Gr.edges[e]>> ELSE <<>>

\* C9: after the graph is built every transaction of a repeated pair is still
\* on the pair's edge with its own amount and timestamp: the edge holds as many
\* instances as the input has records for the pair.
C9_AllTransactionsKept ==
    Backend({"detect", "aggregate", "done"}) =>
        \A i \in DOMAIN df :
            /\ [amount |-> df[i].amount, date |-> df[i].date]
                  \in Range(EdgeInstances(G, EdgeOf(df[i])))
            /\ Len(EdgeInstances(G, EdgeOf(df[i]))) = RecordsOf(EdgeOf(df[i]))

\* C10 as stated: for a non-empty list each of the four rates lies in [0, 1]
\* and so does the composite score.
C10_AllRatesInUnitInterval ==
    Dashboard({"done"}) /\ Len(df) > 0 =>
        /\ InUnitInterval(multi_hop_rate)
        /\ InUnitInterval(circular_rate)
        /\ InUnitInterval(mirrored_rate)
        /\ InUnitInterval(corridor_rate)
        /\ InUnitInterval(hawala_rate)

\* C10 amended: for a non-empty list circular_rate, mirrored_rate and
\* corridor_rate lie in [0, 1] and multihop_rate is >= 0 (it may exceed 1); the
\* composite score is >= 0, and it lies in [0, 1] whenever multihop_rate does.
C10_RatesBounded ==
    Dashboard({"done"}) /\ Len(df) > 0 =>
        /\ RateLe(ZeroRate, multi_hop_rate)
        /\ InUnitInterval(circular_rate)
        /\ InUnitInterval(mirrored_rate)
        /\ InUnitInterval(corridor_rate)
        /\ RateLe(ZeroRate, hawala_rate)
        /\ RateLe(multi_hop_rate, OneRate) => RateLe(hawala_rate, OneRate)

C10_Witness ==
    /\ Dashboard({"done"})
    /\ Len(df) > 0
    /\ ~RateLe(multi_hop_rate, OneRate)
    /\ ~RateLe(hawala_rate, OneRate)

====
